---- MODULE Spec2Model ----
(***************************************************************************)
(* Model of src/app.py: the batch loop over the spreadsheet rows and, for  *)
(* each row, one match attempt (find_best_match_optimized): the search     *)
(* request, the reference-image fetch, the candidate-image fetches run by  *)
(* a pool of worker threads, the collection of the fetched images in       *)
(* completion order, the scoring loop and the classification of the note.  *)
(*                                                                         *)
(* Ranks are 0-based as in the code: items is a function on 0..n-1.        *)
(* Row labels are 1..NRows.  Python's None is modelled by NoneV.           *)
(* The strings of the results are written in ASCII:                        *)
(*   "NoResults"        the price string of line 69                        *)
(*   "API_Error"        line 65, "Error" line 133                          *)
(*   notes: "ApiError(n)" line 65, "ZeroResults" line 69,                  *)
(*   "RefLoadFailed" line 79, "Matched(n)" line 117, "Moderate(n)" line    *)
(*   119, "NoSimilar(n)" line 121, "CandidatesFailed" line 123,            *)
(*   "SystemError:e" line 133.                                             *)
(***************************************************************************)
EXTENDS Integers, Sequences, FiniteSets, TLC

\* ---------------------------------------------------------------- bounds
MaxItems == 3
NRows == 2
PoolExtra == 1

\* ------------------------------------------------------ program constants
MaxWorkers == 5
Sentinel == 100
MatchedMax == 15
ModerateMax == 25
HttpOk == 200

\* ------------------------------------------------------------ value sets
NoneV == "None"
NaNCell == "NaN"
Img == "img"

\* Hamming distances of two 64-bit hashes the model draws from, and the
\* sentinel calculate_similarity returns when hashing raises.
HashDistances == {0, 15, 16, 25, 26}

ErrorStatuses == {401, 500}

\* A locator: a Python value that is a string or not, and, when a string,
\* its first four characters and the characters up to the host.
HttpLoc == [isStr |-> TRUE, head |-> "http", rest |-> "://"]
HttpxLoc == [isStr |-> TRUE, head |-> "http", rest |-> "x://"]
NanLoc == [isStr |-> TRUE, head |-> "nan", rest |-> ""]
EmptyLoc == [isStr |-> TRUE, head |-> "", rest |-> ""]
NoneLoc == [isStr |-> FALSE, head |-> "", rest |-> ""]

NameCells == {NaNCell, "", "cap", "red shoe"}
ImgCells == {NaNCell, "http://ref", "httpx://ref"}

Ranks(n) == 0 .. (n - 1)

\* The longest lists of items of the model: MaxItems, or PoolItems where
\* the provider returns more items than the pool has workers.
PoolItems == MaxWorkers + PoolExtra
AllRanks == Ranks(IF MaxItems > PoolItems THEN MaxItems ELSE PoolItems)

\* The price the provider lists at a rank: distinct per rank.
PriceAt(r) == 1000 * (r + 1)

\* item.get('image') of line 88: a locator the provider lists, or None.
ItemLocs == {HttpLoc, NoneLoc}
AllLocs == {HttpLoc, HttpxLoc, NanLoc, EmptyLoc, NoneLoc}

ItemListsOf(n, locs) ==
  { [r \in Ranks(n) |-> [lprice |-> PriceAt(r), image |-> loc[r]]] :
      loc \in [Ranks(n) -> locs] }

ItemLists(n) == ItemListsOf(n, ItemLocs)

\* str(cell) of lines 206-207: a missing cell (NaN) becomes the text 'nan'.
StrOf(cell) == IF cell = NaNCell THEN "nan" ELSE cell

\* The locator value of a reference-image text.
LocOf(text) ==
  IF text = "" THEN EmptyLoc
  ELSE IF text = "nan" THEN NanLoc
  ELSE IF text = "httpx://ref" THEN HttpxLoc
  ELSE HttpLoc

\* urllib.parse.quote on the product names of the model: a space is escaped.
Quote(name) ==
  IF name = "red shoe" THEN "red%20shoe" ELSE name

SearchLink(name) ==
  "https://search.shopping.naver.com/search/all?query=" \o Quote(name)

\* line 20: the locator is accepted when it is a string starting with 'http'.
ValidLocator(url) == url.isStr /\ url.head = "http"

\* A bug: a request is sent whatever follows 'http' in the locator.
KnownSchemeAny(url) == TRUE

\* line 26: requests.get sends a request for the schemes http:// and
\* https:// and raises for any other, before anything is sent.
KnownScheme(url) == url.rest \in {"://", "s://"}

\* ------------------------------------------------------------ the results
NoNum == -1
Note(tag, num, err) == [tag |-> tag, num |-> num, err |-> err]
StrPrice(s) == [tag |-> s, val |-> 0]
ItemPrice(item) == [tag |-> "lprice", val |-> item.lprice]
Result(price, link, note) == [price |-> price, link |-> link, note |-> note]

OldCells == Result(StrPrice("old"), "old", Note("old", NoNum, ""))
NoResult == Result(StrPrice("-"), "-", Note("-", NoNum, ""))

\* A bug: the status code is left out of the note.
ApiErrorResultNoCode(code) ==
  Result(StrPrice("API_Error"), "", Note("ApiError", NoNum, ""))

ApiErrorResult(code) ==
  Result(StrPrice("API_Error"), "", Note("ApiError", code, ""))

NoResultsResult ==
  Result(StrPrice("NoResults"), "", Note("ZeroResults", NoNum, ""))

\* A bug: the last item is taken, not the first.
RefFallbackLast(its, name) ==
  Result(ItemPrice(its[Cardinality(DOMAIN its) - 1]), SearchLink(name),
         Note("RefLoadFailed", NoNum, ""))

RefFallbackResult(its, name) ==
  Result(ItemPrice(its[0]), SearchLink(name), Note("RefLoadFailed", NoNum, ""))

SystemErrorResult(e) ==
  Result(StrPrice("Error"), "", Note("SystemError", NoNum, e))

\* A bug: strict comparisons at the limits of the bands.
ClassifyNoteStrict(anyImage, score) ==
  IF anyImage
    THEN IF score < MatchedMax THEN Note("Matched", score, "")
         ELSE IF score < ModerateMax THEN Note("Moderate", score, "")
         ELSE Note("NoSimilar", score, "")
    ELSE Note("CandidatesFailed", NoNum, "")

\* lines 116-123: the note of the final result.
ClassifyNote(anyImage, score) ==
  IF anyImage
    THEN IF score <= MatchedMax THEN Note("Matched", score, "")
         ELSE IF score <= ModerateMax THEN Note("Moderate", score, "")
         ELSE Note("NoSimilar", score, "")
    ELSE Note("CandidatesFailed", NoNum, "")

\* A bug: in the no-similar-image band the first item is reported.
FinalResultFirstRank(its, name, winner, anyImage, score) ==
  Result(ItemPrice(its[IF score > ModerateMax THEN 0 ELSE winner]),
         SearchLink(name), ClassifyNote(anyImage, score))

\* lines 126-130
FinalResult(its, name, winner, anyImage, score) ==
  Result(ItemPrice(its[winner]), SearchLink(name), ClassifyNote(anyImage, score))

\* ------------------------------------------------------------ the network
\* What a host does with one request: it answers, or it never does.
Responds == "responds"
Silent == "silent"

Answer(kind, code, its) == [kind |-> kind, code |-> code, items |-> its]
NoItems == [r \in {} |-> NoneV]

\* The answers of the search provider to one request: the request raises
\* (connection error), a status other than 200, a body that is no JSON, a
\* JSON object without 'items', or a list of 0..MaxItems items.
AnswersOn(max, locs) ==
  {Answer("raise", 0, NoItems), Answer("badjson", HttpOk, NoItems),
   Answer("nokey", HttpOk, NoItems)}
  \cup {Answer("status", c, NoItems) : c \in ErrorStatuses}
  \cup UNION {{Answer("ok", HttpOk, its) : its \in ItemListsOf(n, locs)} : n \in 0 .. max}

AnswersUpTo(max) == AnswersOn(max, ItemLocs)

SearchAnswers == AnswersUpTo(MaxItems)

ImageOutcomes == {"ok", "fail", Silent}

\* The network of a run: live (every request draws its own outcome) or a
\* mocked network layer that fixes the outcome of every request.
LiveNetsOn(max, hashes, locs) ==
  [mode |-> "live", maxItems |-> max, hashes |-> hashes, locs |-> locs]

LiveNets(max, hashes) == LiveNetsOn(max, hashes, ItemLocs)

\* What hashing the reference and one candidate image does: it raises, or
\* the two hashes differ in d bits.
HashOutcomes == [raises : BOOLEAN, d : HashDistances]

LiveNet == LiveNets(MaxItems, HashOutcomes)

MockNetsOn(n, answers, refs, imgs, hashes) ==
  [mode : {"mock"}, search : answers, ref : refs,
   img : [Ranks(n) -> imgs], hash : [Ranks(n) -> hashes]]

MockNets(answers, refs, imgs, hashes) ==
  MockNetsOn(MaxItems, answers, refs, imgs, hashes)

VARIABLES
  rows,              \* the input cells of the data frame: name and image
  out,               \* the output cells of the data frame, per row
  i,                 \* the row of the batch loop
  pc,                \* the position of the main thread
  net,               \* the network (LiveNet or a mock)
  req,               \* the host's behaviour for the main thread's request
  response,          \* the answer to the search request (line 63)
  items,             \* the candidates of the attempt
  target_img,        \* the reference image
  fut,               \* the futures of the candidate fetches, per rank
  collected,         \* the futures as_completed has yielded
  candidate_images,  \* the ranks whose image loaded, in collection order
  k,                 \* the position of the scoring loop
  best_score,
  best_item,         \* the rank of the best-so-far item
  score,             \* per rank, the distance the scoring loop computed
  ret,               \* the tuple the attempt returned
  sent,              \* the requests the attempt has issued, per target
  tried,             \* per row, the attempts the batch loop has started
  exc,               \* the exception raised in the attempt, if any
  fault              \* the exception that left find_best_match_optimized

batchVars == <<rows, out, i, tried>>
fetchVars == <<fut, collected, candidate_images>>
scoreVars == <<k, best_score, best_item, score>>
vars == <<rows, out, i, pc, net, req, response, items, target_img, fut, collected,
          candidate_images, k, best_score, best_item, score, ret, sent, tried,
          exc, fault>>

Unset == "-"
NoFuture == [st |-> Unset, host |-> Unset, res |-> Unset, why |-> Unset]
NoFutures == [r \in {} |-> NoFuture]
NoScores == [r \in {} |-> NoNum]
NoneSent == [search |-> 0, ref |-> 0, cand |-> [r \in {} |-> 0]]

p_name == StrOf(rows[i].name)
p_img_url == StrOf(rows[i].img)

RowInputs == [name : NameCells, img : ImgCells]

NoAnswer == Answer(Unset, 0, NoItems)
total_rows == Len(rows)

AttemptInit ==
  /\ req = Unset
  /\ response = NoAnswer
  /\ items = NoItems
  /\ target_img = Unset
  /\ fut = NoFutures
  /\ collected = {}
  /\ candidate_images = << >>
  /\ k = 0
  /\ best_score = NoNum
  /\ best_item = NoNum
  /\ score = NoScores
  /\ ret = NoResult
  /\ sent = NoneSent
  /\ exc = Unset

BatchInit(n) ==
  /\ rows \in [1 .. n -> RowInputs]
  /\ out = [r \in 1 .. n |-> OldCells]
  /\ tried = [r \in 1 .. n |-> 0]
  /\ i = 1
  /\ pc = "loop"
  /\ fault = Unset

\* One row, on the live network: one match attempt with every outcome of
\* every request.
Init ==
  /\ BatchInit(1)
  /\ net = LiveNet
  /\ AttemptInit

\* ------------------------------------------------- outcomes of a request
Live == net.mode = "live"
HostOf(o) == IF o = Silent THEN Silent ELSE Responds
SilentAnswer == Answer(Silent, 0, NoItems)

SearchChoices ==
  IF Live THEN AnswersOn(net.maxItems, net.locs) \cup {SilentAnswer} ELSE {net.search}
RefChoices == IF Live THEN ImageOutcomes ELSE {net.ref}
ImgChoices(r) == IF Live THEN ImageOutcomes ELSE {net.img[r]}
HashChoices(r) == IF Live THEN net.hashes ELSE {net.hash[r]}

\* lines 33-45
calculate_similarity(h) == IF h.raises THEN Sentinel ELSE h.d

\* ------------------------------------------- returning from the attempt
\* A bug: the handler lets the exception leave the function.
HandlerReraise(e) == [pc |-> "aborted", ret |-> NoResult, fault |-> e]

\* lines 132-133: the handler of the attempt's try block.
Handler(e) == [pc |-> "returned", ret |-> SystemErrorResult(e), fault |-> Unset]

Raise(e) ==
  /\ exc' = e
  /\ pc' = Handler(e).pc
  /\ ret' = Handler(e).ret
  /\ fault' = Handler(e).fault

Return(res) ==
  /\ pc' = "returned"
  /\ ret' = res
  /\ UNCHANGED <<exc, fault>>

\* ------------------------------------------------------- the batch loop
\* A bug: only the empty name is passed over.
HasNameNotEmpty(name) == name # ""

\* line 214
HasName(name) == name # "" /\ name # "nan"

\* lines 205-216, 53-63: a row with a name starts an attempt, which issues
\* the search request (no timeout is set on it).
BeginRow ==
  /\ pc = "loop"
  /\ i <= total_rows
  /\ HasName(p_name)
  /\ tried' = [tried EXCEPT ![i] = @ + 1]
  /\ pc' = "search"
  /\ req' \in {HostOf(a.kind) : a \in SearchChoices}
  /\ sent' = [sent EXCEPT !.search = @ + 1]
  /\ UNCHANGED <<rows, out, i, net, response, items, target_img, fetchVars,
                 scoreVars, ret, exc, fault>>

\* lines 205-214, 226: a row without a name is passed over.
SkipRow ==
  /\ pc = "loop"
  /\ i <= total_rows
  /\ ~HasName(p_name)
  /\ i' = i + 1
  /\ UNCHANGED <<rows, out, tried, pc, net, sent, req, response, items, target_img, fetchVars,
                 scoreVars, ret, exc, fault>>

\* The locals of find_best_match_optimized are gone once it has returned.
ResetAttempt ==
  /\ req' = Unset
  /\ response' = NoAnswer
  /\ items' = NoItems
  /\ target_img' = Unset
  /\ fut' = NoFutures
  /\ collected' = {}
  /\ candidate_images' = << >>
  /\ k' = 0
  /\ best_score' = NoNum
  /\ best_item' = NoNum
  /\ score' = NoScores
  /\ ret' = NoResult
  /\ sent' = NoneSent
  /\ exc' = Unset

\* A bug: the result is written to the first row of the frame.
WriteCellsFirstRow ==
  /\ pc = "returned"
  /\ out' = [out EXCEPT ![1] = ret]
  /\ i' = i + 1
  /\ pc' = "loop"
  /\ ResetAttempt
  /\ UNCHANGED <<rows, tried, net, fault>>

\* lines 216-226: the three cells of the row are written.
WriteCells ==
  /\ pc = "returned"
  /\ out' = [out EXCEPT ![i] = ret]
  /\ i' = i + 1
  /\ pc' = "loop"
  /\ ResetAttempt
  /\ UNCHANGED <<rows, tried, net, fault>>

\* lines 228-249
Finish ==
  /\ pc = "loop"
  /\ i > total_rows
  /\ pc' = "finished"
  /\ UNCHANGED <<batchVars, net, sent, req, response, items, target_img, fetchVars,
                 scoreVars, ret, exc, fault>>

\* ------------------------------------------------- the search request
AnswersOf(kind) == {a \in SearchChoices : a.kind = kind}

SearchPending == pc = "search" /\ req = Responds

\* line 63 raises (connection error): lines 132-133.
SearchRaises ==
  /\ SearchPending
  /\ AnswersOf("raise") # {}
  /\ Raise("ConnectionError")
  /\ req' = Unset
  /\ UNCHANGED <<batchVars, net, sent, response, items, target_img, fetchVars, scoreVars>>

\* lines 64-65
SearchBadStatus ==
  /\ SearchPending
  /\ \E a \in AnswersOf("status") :
       /\ a.code # HttpOk
       /\ response' = a
       /\ Return(ApiErrorResult(a.code))
  /\ req' = Unset
  /\ UNCHANGED <<batchVars, net, sent, items, target_img, fetchVars, scoreVars>>

\* line 67 raises: the body is no JSON.
SearchBadJson ==
  /\ SearchPending
  /\ \E a \in AnswersOf("badjson") : response' = a
  /\ Raise("JSONDecodeError")
  /\ req' = Unset
  /\ UNCHANGED <<batchVars, net, sent, items, target_img, fetchVars, scoreVars>>

\* lines 67-69: no 'items' key, or an empty list.
SearchEmpty ==
  /\ SearchPending
  /\ \E a \in AnswersOf("nokey") \cup AnswersOf("ok") :
       /\ a.items = NoItems
       /\ response' = a
       /\ Return(NoResultsResult)
  /\ req' = Unset
  /\ UNCHANGED <<batchVars, net, sent, items, target_img, fetchVars, scoreVars>>

\* lines 67-79: items came back and the reference locator is refused by
\* load_image_from_url (line 20), which returns None without a request.
SearchItemsRefInvalid ==
  /\ SearchPending
  /\ ~ValidLocator(LocOf(p_img_url))
  /\ \E a \in AnswersOf("ok") :
       /\ a.items # NoItems
       /\ response' = a
       /\ items' = a.items
       /\ Return(RefFallbackResult(a.items, p_name))
  /\ target_img' = NoneV
  /\ req' = Unset
  /\ UNCHANGED <<batchVars, net, sent, fetchVars, scoreVars>>

\* lines 67-79, 20-31: items came back, the reference locator passes line
\* 20 and requests.get raises on its scheme at line 26, before anything is
\* sent; load_image_from_url returns None.
SearchItemsRefBadScheme ==
  /\ SearchPending
  /\ ValidLocator(LocOf(p_img_url))
  /\ ~KnownScheme(LocOf(p_img_url))
  /\ \E a \in AnswersOf("ok") :
       /\ a.items # NoItems
       /\ response' = a
       /\ items' = a.items
       /\ Return(RefFallbackResult(a.items, p_name))
  /\ target_img' = NoneV
  /\ req' = Unset
  /\ UNCHANGED <<batchVars, net, sent, fetchVars, scoreVars>>

\* lines 67-72, 20-26: items came back and the reference request is issued.
SearchItemsRefRequested ==
  /\ SearchPending
  /\ ValidLocator(LocOf(p_img_url))
  /\ KnownScheme(LocOf(p_img_url))
  /\ \E a \in AnswersOf("ok") :
       /\ a.items # NoItems
       /\ response' = a
       /\ items' = a.items
  /\ req' \in {HostOf(o) : o \in RefChoices}
  /\ sent' = [sent EXCEPT !.ref = @ + 1]
  /\ pc' = "ref"
  /\ UNCHANGED <<batchVars, net, target_img, fetchVars, scoreVars, ret, exc, fault>>

\* ------------------------------------------- the reference-image fetch
\* lines 85-90: one future per item, in rank order.
Submitted(its) ==
  [r \in DOMAIN its |-> [st |-> "pending", host |-> Unset, res |-> Unset, why |-> Unset]]

\* lines 26-29, 72, 83-90: the reference image loads; the candidate fetches
\* are submitted.
RefLoaded ==
  /\ pc = "ref" /\ req = Responds
  /\ "ok" \in RefChoices
  /\ target_img' = Img
  /\ fut' = Submitted(items)
  /\ sent' = [sent EXCEPT !.cand = [r \in DOMAIN items |-> 0]]
  /\ score' = [r \in DOMAIN items |-> NoNum]
  /\ pc' = "collect"
  /\ req' = Unset
  /\ UNCHANGED <<batchVars, net, response, items, collected, candidate_images, k,
                 best_score, best_item, ret, exc, fault>>

\* A bug: the candidate fetches are submitted although the reference image
\* did not load.
RefFailedGoesOn ==
  /\ pc = "ref" /\ req = Responds
  /\ "fail" \in RefChoices
  /\ target_img' = NoneV
  /\ fut' = Submitted(items)
  /\ sent' = [sent EXCEPT !.cand = [r \in DOMAIN items |-> 0]]
  /\ score' = [r \in DOMAIN items |-> NoNum]
  /\ pc' = "collect"
  /\ req' = Unset
  /\ UNCHANGED <<batchVars, net, response, items, collected, candidate_images, k,
                 best_score, best_item, ret, exc, fault>>

\* lines 26-31, 72-79: the response is an error status or no image.
RefFailed ==
  /\ pc = "ref" /\ req = Responds
  /\ "fail" \in RefChoices
  /\ target_img' = NoneV
  /\ Return(RefFallbackResult(items, p_name))
  /\ req' = Unset
  /\ UNCHANGED <<batchVars, net, sent, response, items, fetchVars, scoreVars>>

\* lines 26, 30-31, 72-79: no response within the timeout.
RefTimeout ==
  /\ pc = "ref" /\ req = Silent
  /\ target_img' = NoneV
  /\ Return(RefFallbackResult(items, p_name))
  /\ req' = Unset
  /\ UNCHANGED <<batchVars, net, sent, response, items, fetchVars, scoreVars>>

\* ------------------------------------------- the candidate-image fetches
Running == {r \in DOMAIN fut : fut[r].st = "running"}
Pending == {r \in DOMAIN fut : fut[r].st = "pending"}
Done == {r \in DOMAIN fut : fut[r].st = "done"}

\* A bug: the pool starts a worker for every queued fetch.
NextInQueueNoLimit(r) ==
  /\ r \in Pending
  /\ \A q \in Pending : r <= q

\* The pool hands the queued fetches to its workers in submission order,
\* at most MaxWorkers at a time (line 85).
NextInQueue(r) ==
  /\ r \in Pending
  /\ \A q \in Pending : r <= q
  /\ Cardinality(Running) < MaxWorkers

Resolved(res, why) == [st |-> "done", host |-> Unset, res |-> res, why |-> why]

\* lines 20-21, 26-31 in a worker: the locator is refused, or requests.get
\* raises on its scheme; no request is made.
StartFetchInvalid(r) ==
  /\ pc = "collect"
  /\ NextInQueue(r)
  /\ ~(ValidLocator(items[r].image) /\ KnownScheme(items[r].image))
  /\ fut' = [fut EXCEPT ![r] = Resolved(NoneV, "invalid")]
  /\ UNCHANGED <<batchVars, pc, net, sent, req, response, items, target_img, collected,
                 candidate_images, scoreVars, ret, exc, fault>>

\* lines 20-26 in a worker: the request is issued.
StartFetchRequest(r) ==
  /\ pc = "collect"
  /\ NextInQueue(r)
  /\ ValidLocator(items[r].image) /\ KnownScheme(items[r].image)
  /\ \E h \in {HostOf(o) : o \in ImgChoices(r)} :
       fut' = [fut EXCEPT ![r] = [st |-> "running", host |-> h, res |-> Unset, why |-> Unset]]
  /\ sent' = [sent EXCEPT !.cand[r] = @ + 1]
  /\ UNCHANGED <<batchVars, pc, net, req, response, items, target_img, collected,
                 candidate_images, scoreVars, ret, exc, fault>>

\* lines 26-29
FetchLoaded(r) ==
  /\ r \in Running /\ fut[r].host = Responds
  /\ "ok" \in ImgChoices(r)
  /\ fut' = [fut EXCEPT ![r] = Resolved(Img, "ok")]
  /\ UNCHANGED <<batchVars, pc, net, sent, req, response, items, target_img, collected,
                 candidate_images, scoreVars, ret, exc, fault>>

\* A bug: a failed fetch is requested once more.
FetchFailedRetry(r) ==
  /\ r \in Running /\ fut[r].host = Responds
  /\ "fail" \in ImgChoices(r)
  /\ sent.cand[r] < 2
  /\ sent' = [sent EXCEPT !.cand[r] = @ + 1]
  /\ UNCHANGED <<batchVars, pc, net, fut, req, response, items, target_img, collected,
                 candidate_images, scoreVars, ret, exc, fault>>

\* lines 26-31: an error status, or bytes that are no image.
FetchFailed(r) ==
  /\ r \in Running /\ fut[r].host = Responds
  /\ "fail" \in ImgChoices(r)
  /\ fut' = [fut EXCEPT ![r] = Resolved(NoneV, "fail")]
  /\ UNCHANGED <<batchVars, pc, net, sent, req, response, items, target_img, collected,
                 candidate_images, scoreVars, ret, exc, fault>>

\* A bug: the request has no timeout, a silent host is waited for forever.
FetchNoTimeout(r) ==
  /\ r \in Running /\ fut[r].host = Silent
  /\ FALSE
  /\ UNCHANGED vars

\* lines 26, 30-31: no response within the timeout of the request.
FetchTimeout(r) ==
  /\ r \in Running /\ fut[r].host = Silent
  /\ fut' = [fut EXCEPT ![r] = Resolved(NoneV, "timeout")]
  /\ UNCHANGED <<batchVars, pc, net, sent, req, response, items, target_img, collected,
                 candidate_images, scoreVars, ret, exc, fault>>

\* A bug: the item is kept whether or not its image loaded.
CollectAll(r) ==
  /\ pc = "collect"
  /\ r \in Done \ collected
  /\ collected' = collected \cup {r}
  /\ candidate_images' = Append(candidate_images, r)
  /\ UNCHANGED <<batchVars, pc, net, sent, req, response, items, target_img, fut, scoreVars,
                 ret, exc, fault>>

\* lines 93-100: as_completed yields a finished future; its item is kept
\* with its image when there is one.
Collect(r) ==
  /\ pc = "collect"
  /\ r \in Done \ collected
  /\ collected' = collected \cup {r}
  /\ candidate_images' =
       IF fut[r].res = Img THEN Append(candidate_images, r) ELSE candidate_images
  /\ UNCHANGED <<batchVars, pc, net, sent, req, response, items, target_img, fut, scoreVars,
                 ret, exc, fault>>

\* ----------------------------------------------------- the scoring loop
\* A bug: the loop over the futures ends at the first one.
FirstCollected == pc = "collect" /\ collected # {}

\* lines 93-100: as_completed has yielded every future.
AllCollected == pc = "collect" /\ collected = DOMAIN fut

\* lines 103-107: the best-so-far is seeded and the loop entered.
BeginScoring ==
  /\ AllCollected
  /\ candidate_images # << >>
  /\ best_score' = Sentinel
  /\ best_item' = 0
  /\ k' = 1
  /\ pc' = "score"
  /\ UNCHANGED <<batchVars, net, sent, req, response, items, target_img, fetchVars, score,
                 ret, exc, fault>>

\* lines 103-106, 122-130: no image was kept.
NoCandidateImages ==
  /\ AllCollected
  /\ candidate_images = << >>
  /\ best_score' = Sentinel
  /\ best_item' = 0
  /\ Return(FinalResult(items, p_name, 0, FALSE, Sentinel))
  /\ UNCHANGED <<batchVars, net, sent, req, response, items, target_img, fetchVars, k, score>>

\* A bug: an equal score replaces the best-so-far too.
BetterOrEqual(s, r, bs, bi) ==
  IF s <= bs THEN [score |-> s, item |-> r] ELSE [score |-> bs, item |-> bi]

\* A bug: the rank of the better item is counted from 1.
BetterOffByOne(s, r, bs, bi) ==
  IF s < bs THEN [score |-> s, item |-> r + 1] ELSE [score |-> bs, item |-> bi]

\* lines 111-113: the update of the best-so-far by one scored item.
Better(s, r, bs, bi) ==
  IF s < bs THEN [score |-> s, item |-> r] ELSE [score |-> bs, item |-> bi]

\* lines 107-113: one iteration of the loop.
ScoreStep ==
  /\ pc = "score"
  /\ k <= Len(candidate_images)
  /\ LET r == candidate_images[k] IN
       \E h \in HashChoices(r) :
         LET s == calculate_similarity(h)
             b == Better(s, r, best_score, best_item) IN
           /\ score' = [score EXCEPT ![r] = s]
           /\ best_score' = b.score
           /\ best_item' = b.item
  /\ k' = k + 1
  /\ UNCHANGED <<batchVars, pc, net, sent, req, response, items, target_img, fetchVars,
                 ret, exc, fault>>

\* lines 116-130: after the loop.
Classify ==
  /\ pc = "score"
  /\ k > Len(candidate_images)
  /\ Return(FinalResult(items, p_name, best_item, TRUE, best_score))
  /\ UNCHANGED <<batchVars, net, sent, req, response, items, target_img, fetchVars, scoreVars>>

\* ------------------------------------------------------ the specification
Worker(r) ==
  \/ StartFetchInvalid(r)
  \/ StartFetchRequest(r)
  \/ FetchLoaded(r)
  \/ FetchFailed(r)
  \/ FetchTimeout(r)

Next ==
  \/ BeginRow
  \/ SkipRow
  \/ WriteCells
  \/ Finish
  \/ SearchRaises
  \/ SearchBadStatus
  \/ SearchBadJson
  \/ SearchEmpty
  \/ SearchItemsRefInvalid
  \/ SearchItemsRefBadScheme
  \/ SearchItemsRefRequested
  \/ RefLoaded
  \/ RefFailed
  \/ RefTimeout
  \/ \E r \in AllRanks : Worker(r)
  \/ \E r \in AllRanks : Collect(r)
  \/ BeginScoring
  \/ NoCandidateImages
  \/ ScoreStep
  \/ Classify

Spec == Init /\ [][Next]_vars

\* Every thread that can take a step takes one, and the timers of the
\* requests that have a timeout fire.
FairSpec == Spec /\ WF_vars(Next)

\* ------------------------------------------------- the mocked network
\* The same row NRows times over a mocked network layer: the provider's
\* answer, the outcome of every image fetch and every hashing are fixed
\* for the whole run.
MockHashes == {h \in HashOutcomes : ~h.raises /\ h.d \in {16, 26}}

MockFaults ==
  MockNets({a \in SearchAnswers \cup {SilentAnswer} : a.kind # "ok" \/ a.items = NoItems},
           {"ok"}, {"ok"}, {[raises |-> FALSE, d |-> 16]})

MockRefFaults ==
  MockNets({a \in SearchAnswers : Cardinality(DOMAIN a.items) = 1},
           {"fail", Silent}, {"ok"}, {[raises |-> FALSE, d |-> 16]})

MockMatches ==
  MockNets({a \in SearchAnswers : Cardinality(DOMAIN a.items) = MaxItems},
           {"ok"}, ImageOutcomes, MockHashes)

MockInit ==
  /\ rows \in {[r \in 1 .. NRows |-> x] : x \in RowInputs}
  /\ out = [r \in 1 .. NRows |-> OldCells]
  /\ tried = [r \in 1 .. NRows |-> 0]
  /\ i = 1
  /\ pc = "loop"
  /\ fault = Unset
  /\ net \in MockFaults \cup MockRefFaults \cup MockMatches
  /\ AttemptInit

MockSpec == MockInit /\ [][Next]_vars

\* ------------------------------------------------- every kind of locator
\* One row on the live network, where the provider lists every kind of
\* locator for the candidates' images.
LocItems == 2
LocRows == [name : {NaNCell, "cap"}, img : ImgCells]
LocHashes == {h \in HashOutcomes : ~h.raises /\ h.d = 16}

LocInit ==
  /\ rows \in [1 .. 1 -> LocRows]
  /\ out = [r \in 1 .. 1 |-> OldCells]
  /\ tried = [r \in 1 .. 1 |-> 0]
  /\ i = 1
  /\ pc = "loop"
  /\ fault = Unset
  /\ net = LiveNetsOn(LocItems, LocHashes, AllLocs)
  /\ AttemptInit

LocSpec == LocInit /\ [][Next]_vars

\* ------------------------------------------------- a batch of rows
\* NRows rows, each with or without a name, on the live network: the
\* requests of every row's attempt draw their own outcomes.
BatchRows ==
  {x \in RowInputs : x.name \in {NaNCell, "", "cap"} /\ (x.name # "cap" => x.img = "http://ref")}

BatchNet == LiveNets(1, LocHashes)

RowsInit ==
  /\ rows \in [1 .. NRows -> BatchRows]
  /\ out = [r \in 1 .. NRows |-> OldCells]
  /\ tried = [r \in 1 .. NRows |-> 0]
  /\ i = 1
  /\ pc = "loop"
  /\ fault = Unset
  /\ net = BatchNet
  /\ AttemptInit

BatchSpec == RowsInit /\ [][Next]_vars

\* ------------------------------------------------- more items than workers
\* One row over a mocked network whose provider returns PoolItems items,
\* more than the pool has workers, with the images all loading, all
\* failing or all silent.
PoolLists ==
  {its \in ItemLists(PoolItems) :
     \A r \in Ranks(PoolItems) : r < PoolItems - 1 => its[r].image = HttpLoc}

PoolHash == [raises |-> FALSE, d |-> 16]

PoolMatches ==
  {[mode |-> "mock", search |-> Answer("ok", HttpOk, its), ref |-> "ok",
    img |-> [r \in Ranks(PoolItems) |-> o],
    hash |-> [r \in Ranks(PoolItems) |-> PoolHash]] :
     its \in PoolLists, o \in ImageOutcomes}

PoolFaults ==
  MockNetsOn(PoolItems,
             {a \in AnswersUpTo(1) \cup {SilentAnswer} : a.kind # "ok" \/ a.items = NoItems},
             {"ok"}, {"ok"}, {PoolHash})

PoolRefFaults ==
  MockNetsOn(PoolItems, {a \in AnswersUpTo(1) : a.items # NoItems},
             {"fail", Silent}, {"ok"}, {PoolHash})

PoolRows ==
  {[name |-> NaNCell, img |-> "http://ref"], [name |-> "cap", img |-> NaNCell],
   [name |-> "cap", img |-> "httpx://ref"], [name |-> "cap", img |-> "http://ref"]}

PoolInit ==
  /\ rows \in [1 .. 1 -> PoolRows]
  /\ out = [r \in 1 .. 1 |-> OldCells]
  /\ tried = [r \in 1 .. 1 |-> 0]
  /\ i = 1
  /\ pc = "loop"
  /\ fault = Unset
  /\ net \in PoolFaults \cup PoolRefFaults \cup PoolMatches
  /\ AttemptInit

PoolSpec == PoolInit /\ [][Next]_vars

\* ============================================================ properties
Returned == pc = "returned"
Loaded == {r \in DOMAIN fut : fut[r].res = Img}
TimedOut == {r \in DOMAIN fut : fut[r].why = "timeout"}
Scored == {r \in DOMAIN score : score[r] # NoNum}
InImages(r) == \E n \in 1 .. Len(candidate_images) : candidate_images[n] = r
MinOf(S) == CHOOSE m \in S : \A x \in S : m <= x
MinScore == MinOf({score[r] : r \in Scored})
Closest == {r \in Scored : score[r] = MinScore}
ProviderPrices == {response.items[r].lprice : r \in DOMAIN response.items}

GenericLink(name) ==
  IF name = "red shoe"
    THEN "https://search.shopping.naver.com/search/all?query=red%20shoe"
    ELSE "https://search.shopping.naver.com/search/all?query=cap"

ErrorPrices == {"API_Error", "NoResults", "Error"}
FallbackNotes == {"RefLoadFailed", "CandidatesFailed", "NoSimilar"}
BandNotes == {"Matched", "Moderate", "NoSimilar"}

WellFormed(res) ==
  /\ res.price.tag \in ErrorPrices \cup {"lprice"}
  /\ res.note.tag \in FallbackNotes \cup BandNotes \cup {"ApiError", "ZeroResults", "SystemError"}

\* C1: find_best_match_optimized never lets a fault out: no exception ever
\* leaves it, an exception raised inside it (by the request, by the JSON
\* decoding) ends the attempt at once with the system-error result naming
\* it, and whatever is returned is a well-formed (price, link, note).
C1_NeverPropagates ==
  /\ fault = Unset
  /\ pc # "aborted"
  /\ exc # Unset =>
       /\ Returned
       /\ ret.price.tag = "Error"
       /\ ret.link = ""
       /\ ret.note = [tag |-> "SystemError", num |-> NoNum, err |-> exc]
  /\ Returned => WellFormed(ret)

C1_Witness == Returned /\ exc = "JSONDecodeError" /\ ret.price.tag = "Error"

\* C2: a result that is no error carries the price of one of the items the
\* provider returned in this attempt, and during the scoring loop the
\* best-so-far item is always one of those items.
C2_PriceFromCandidates ==
  /\ pc = "score" => best_item \in DOMAIN response.items
  /\ (Returned /\ ret.price.tag \notin ErrorPrices) =>
       /\ ret.price.tag = "lprice"
       /\ ret.price.val \in ProviderPrices
  /\ (Returned /\ ret.note.tag \in FallbackNotes \cup BandNotes) =>
       ret.price.tag = "lprice"

C2_Witness ==
  /\ Returned
  /\ ret.note.tag = "Matched"
  /\ 2 \in DOMAIN response.items
  /\ ret.price.val = response.items[2].lprice

\* C3: when two or more fetched candidates share the minimum distance,
\* below the sentinel, the one of earliest rank among them is the winner.
C3_TieEarliestRank ==
  (Returned /\ Scored # {} /\ MinScore < Sentinel /\ Cardinality(Closest) >= 2) =>
    best_item = MinOf(Closest)

\* C4: over a mocked network, every run of the same row gives the same
\* three cells: the result does not depend on the order in which the
\* candidate fetches complete.
C4_SameResultEveryRun ==
  \A a, b \in 1 .. total_rows :
    (a < i /\ b < i /\ rows[a] = rows[b]) => out[a] = out[b]

\* C5: every match attempt returns, also when a host never answers.
C5_AttemptReturns == (pc = "search") ~> Returned

\* C6: a status other than success gives the provider-error result with
\* that status code, success with no candidate gives the no-results result;
\* both have an empty link and no candidate price.
C6_ProviderOutcomes ==
  Returned =>
    /\ (response.kind # Unset /\ response.code # HttpOk) =>
         /\ ret.price.tag = "API_Error"
         /\ ret.link = ""
         /\ ret.note = [tag |-> "ApiError", num |-> response.code, err |-> ""]
    /\ (response.kind \in {"ok", "nokey"} /\ response.items = NoItems) =>
         /\ ret.price.tag = "NoResults"
         /\ ret.link = ""
         /\ ret.note.tag = "ZeroResults"

C6_Witness == Returned /\ response.code = 500 /\ ret.note.num = 500

\* C7: with candidates retrieved and no reference image, the result is the
\* price of rank 0, the generic search link of the product name and the
\* reference-image fallback note.
C7_ReferenceFallback ==
  (Returned /\ response.items # NoItems /\ target_img = NoneV) =>
    /\ ret.price = [tag |-> "lprice", val |-> response.items[0].lprice]
    /\ ret.link = GenericLink(p_name)
    /\ ret.note = [tag |-> "RefLoadFailed", num |-> NoNum, err |-> ""]

C7_Witness ==
  /\ Returned
  /\ target_img = NoneV
  /\ Cardinality(DOMAIN response.items) >= 2
  /\ ValidLocator(LocOf(p_img_url))
  /\ p_name = "red shoe"

\* C8: with the reference image loaded and no candidate image loaded, the
\* result is the price of rank 0 with the candidates-failed note, which has
\* no distance; a candidate whose image did not load is never scored.
C8_NoCandidateImage ==
  /\ \A r \in Scored : fut[r].res = Img
  /\ (Returned /\ target_img = Img /\ Loaded = {}) =>
       /\ ret.price = [tag |-> "lprice", val |-> response.items[0].lprice]
       /\ ret.note = [tag |-> "CandidatesFailed", num |-> NoNum, err |-> ""]

C8_Witness ==
  /\ Returned
  /\ target_img = Img
  /\ Loaded = {}
  /\ \E r \in DOMAIN fut : fut[r].why = "fail"
  /\ \E r \in DOMAIN fut : fut[r].why = "timeout"

\* C9: once a candidate was scored, the band of the note is decided by the
\* winning distance d alone: d <= 15 matched, 15 < d <= 25 moderate,
\* d > 25 no similar image; the note carries d.
C9_Bands ==
  (Returned /\ Scored # {}) =>
    /\ ret.note.num = MinScore
    /\ ret.note.tag \in BandNotes
    /\ ret.note.tag = "Matched" <=> MinScore <= 15
    /\ ret.note.tag = "Moderate" <=> (15 < MinScore /\ MinScore <= 25)
    /\ ret.note.tag = "NoSimilar" <=> MinScore > 25

C9_Witness == Returned /\ Scored # {} /\ ret.note.tag = "Moderate" /\ ret.note.num = 25

\* C10: a candidate host that never answers is turned into unavailable by
\* the timeout and is not scored, the other fetches go on, and the attempt
\* returns; the winner is one of the candidates that loaded.
C10_WinnerAmongLoaded ==
  (Returned /\ TimedOut # {} /\ Loaded # {}) =>
    /\ \A r \in TimedOut : r \notin Scored /\ ~InImages(r)
    /\ best_item \in Loaded

SilentFetch == \E r \in DOMAIN fut : fut[r].st = "running" /\ fut[r].host = Silent

\* C10 as amended: the winner is one of the candidates that loaded whenever
\* one of them is closer than the sentinel.
C10_SilentHostExcluded ==
  /\ [](\A r \in TimedOut : r \notin Scored /\ ~InImages(r))
  /\ []((Returned /\ Scored # {} /\ MinScore < Sentinel) => best_item \in Loaded)
  /\ SilentFetch ~> Returned

C10_Witness ==
  /\ Returned
  /\ TimedOut # {}
  /\ Cardinality(Loaded) >= 2
  /\ best_item \in Loaded
  /\ ret.note.tag = "Matched"

\* C11: when a fetched candidate is closer than the sentinel, the reported
\* price is the price of a candidate at the minimum distance over all the
\* fetched candidates, in every band; the price of rank 0 is reported only
\* when rank 0 is itself at the minimum.
C11_MinimiserReported ==
  (Returned /\ Scored # {} /\ MinScore < Sentinel) =>
    /\ \E w \in Closest : ret.price = [tag |-> "lprice", val |-> response.items[w].lprice]
    /\ ret.price.val = response.items[0].lprice => 0 \in Closest

C11_Witness ==
  /\ Returned
  /\ Scored # {}
  /\ 0 \in Scored
  /\ MinScore = 26
  /\ score[0] = Sentinel
  /\ ret.note.tag = "NoSimilar"
  /\ ret.price.val = response.items[1].lprice

\* C12: the best-so-far starts as rank 0 at the sentinel 100 and is replaced
\* only by a strictly smaller distance: a candidate scored at the sentinel
\* is never the winner unless it is rank 0, and when every scored candidate
\* is at the sentinel the price of rank 0 is reported with the
\* no-similar-image note at 100, whether or not the image of rank 0 loaded.
C12_SeedState ==
  /\ (pc = "score" /\ k = 1) => (best_score = 100 /\ best_item = 0)
  /\ (pc = "score" \/ (Returned /\ Scored # {})) =>
       \A r \in Scored : (score[r] = 100 /\ r # 0) => best_item # r
  /\ (Returned /\ Scored # {} /\ MinScore = 100) =>
       /\ ret.price = [tag |-> "lprice", val |-> response.items[0].lprice]
       /\ ret.note = [tag |-> "NoSimilar", num |-> 100, err |-> ""]

C12_SeedStep ==
  (pc = "score" /\ pc' = "score" /\ best_item' # best_item) => best_score' < best_score

C12_SeedKept == [] C12_SeedState /\ [][C12_SeedStep]_vars

C12_Witness ==
  /\ Returned
  /\ Cardinality(Scored) >= 2
  /\ MinScore = 100
  /\ 0 \notin Loaded
  /\ ret.price.val = response.items[0].lprice

\* C13: the terminal outcomes cut the attempt short: after a provider error
\* or a no-results answer no image fetch, of the reference or of a
\* candidate, is started; after the reference image was found unavailable
\* no candidate fetch is started; a candidate fetch exists only once the
\* reference fetch has ended with an image.
NoFetchOfCandidates == fut = NoFutures /\ DOMAIN sent.cand = {}

C13_ShortCircuit ==
  /\ (response.kind \in {"status", "nokey", "ok"}
       /\ (response.code # 200 \/ response.items = NoItems)) =>
       /\ Returned
       /\ target_img = Unset
       /\ sent.ref = 0
       /\ NoFetchOfCandidates
  /\ target_img = NoneV => (Returned /\ NoFetchOfCandidates)
  /\ pc \in {"search", "ref"} => NoFetchOfCandidates
  /\ ~NoFetchOfCandidates => (target_img = Img /\ sent.ref = 1)

C13_Witness ==
  /\ Returned
  /\ target_img = NoneV
  /\ sent.ref = 1
  /\ NoFetchOfCandidates
  /\ Cardinality(DOMAIN response.items) >= 2

\* C14: at every moment at most 5 candidate-image fetches are in flight,
\* also when the provider returned more than 5 candidates.
InFlight == {r \in DOMAIN fut : fut[r].st = "running"}

C14_AtMostFiveInFlight == Cardinality(InFlight) <= 5

C14_Witness ==
  /\ Cardinality(DOMAIN fut) > 5
  /\ Cardinality(InFlight) = 5
  /\ \E r \in DOMAIN fut : fut[r].st = "pending"

\* C15: no score is computed and no winner selected before every submitted
\* candidate fetch has resolved, and when the attempt returns no candidate
\* fetch is queued or in flight.
Unresolved == {r \in DOMAIN fut : fut[r].st # "done"}

C15_ScoreAfterAllResolved ==
  /\ (pc = "score" \/ Scored # {} \/ best_item # NoNum) => Unresolved = {}
  /\ Returned => Unresolved = {}

C15_Witness ==
  /\ pc = "score"
  /\ k = 2
  /\ Cardinality(DOMAIN fut) = 3
  /\ TimedOut # {}
  /\ Unresolved = {}

\* C16: no request is retried: an attempt issues exactly one search request,
\* at most one fetch of the reference image and at most one fetch per
\* candidate, whatever each request's outcome.
C16_NoRetry ==
  /\ sent.search <= 1
  /\ pc \notin {"loop", "finished"} => sent.search = 1
  /\ sent.ref <= 1
  /\ \A r \in DOMAIN sent.cand : sent.cand[r] <= 1

C16_Witness ==
  /\ Returned
  /\ sent.search = 1
  /\ sent.ref = 1
  /\ \E r, q \in DOMAIN fut :
       /\ fut[r].why = "fail" /\ sent.cand[r] = 1
       /\ fut[q].why = "timeout" /\ sent.cand[q] = 1

\* C17: load_image_from_url on a locator that is not a non-empty string
\* beginning with http:// or https:// returns unavailable and no request is
\* issued for it; for every locator and every failure of the request or of
\* the decoding it returns an image or unavailable, and raises nothing.
Recognized(url) == url.isStr /\ url.head = "http" /\ url.rest \in {"://", "s://"}

C17_LoadImage ==
  /\ target_img \in {Unset, Img, NoneV}
  /\ \A r \in DOMAIN fut :
       /\ fut[r].st = "done" => fut[r].res \in {Img, NoneV}
       /\ ~Recognized(items[r].image) =>
            /\ sent.cand[r] = 0
            /\ fut[r].st # "running"
            /\ fut[r].st = "done" => fut[r].res = NoneV
  /\ (pc \notin {"loop", "finished"} /\ ~Recognized(LocOf(p_img_url))) =>
       /\ sent.ref = 0
       /\ target_img \in {Unset, NoneV}
  /\ exc # Unset => (target_img = Unset /\ fut = NoFutures)
  /\ fault = Unset

C17_Witness ==
  /\ Returned
  /\ \E r, q \in DOMAIN fut :
       /\ items[r].image = HttpxLoc /\ fut[r].res = NoneV /\ sent.cand[r] = 0
       /\ items[q].image = HttpLoc /\ fut[q].res = Img /\ sent.cand[q] = 1

\* C18: one bad row does not abort the batch: whatever each attempt returns,
\* every row with a name that the loop has passed got exactly one attempt,
\* the rows are attempted in row order, the three cells of a row are written
\* with the result of that row's own attempt, and an attempt starts from
\* nothing an earlier row's attempt left behind.
Named(r) == rows[r].name \notin {NaNCell, "", "nan"}

Pristine ==
  /\ req = Unset /\ response = NoAnswer /\ items = NoItems /\ target_img = Unset
  /\ fut = NoFutures /\ collected = {} /\ candidate_images = << >>
  /\ k = 0 /\ best_score = NoNum /\ best_item = NoNum /\ score = NoScores
  /\ ret = NoResult /\ sent = NoneSent /\ exc = Unset

C18_BatchState ==
  /\ fault = Unset /\ pc # "aborted"
  /\ \A r \in DOMAIN rows :
       /\ tried[r] <= 1
       /\ r > i => (tried[r] = 0 /\ out[r] = OldCells)
       /\ (r < i /\ Named(r)) => tried[r] = 1
  /\ pc \notin {"loop", "finished"} => (i \in DOMAIN rows /\ Named(i) /\ tried[i] = 1)
  /\ pc = "loop" => Pristine
  /\ pc = "finished" => i = Len(rows) + 1

C18_BatchStep ==
  /\ pc = "returned" => (out' = [out EXCEPT ![i] = ret] /\ i' = i + 1)
  /\ out' # out => pc = "returned"
  /\ i' \in {i, i + 1}
  /\ rows' = rows

C18_EveryRowItsOwnAttempt == [] C18_BatchState /\ [][C18_BatchStep]_vars

C18_Witness ==
  /\ pc = "finished"
  /\ Len(rows) >= 2
  /\ Named(1) /\ Named(2)
  /\ out[1].price = StrPrice("Error")
  /\ out[2].price.tag = "lprice"
  /\ tried[1] = 1 /\ tried[2] = 1

\* C19: a row whose name is empty or 'nan' starts no attempt and no request,
\* its three cells stay as they were, and the loop goes on to the next row.
Nameless(r) == StrOf(rows[r].name) \in {"", "nan"}

C19_NamelessRowSkipped ==
  /\ \A r \in DOMAIN rows : Nameless(r) => (tried[r] = 0 /\ out[r] = OldCells)
  /\ (pc \in {"loop", "finished"} /\ i > 1 /\ Nameless(i - 1)) => Pristine
  /\ (i \in DOMAIN rows /\ Nameless(i)) => (pc = "loop" /\ sent = NoneSent)
  /\ pc = "finished" => i = Len(rows) + 1

C19_Witness ==
  /\ pc = "finished"
  /\ Len(rows) >= 2
  /\ Nameless(1) /\ rows[1].name = NaNCell
  /\ out[1] = OldCells /\ tried[1] = 0
  /\ tried[2] = 1 /\ out[2] # OldCells

====
